---------------------------- MODULE Spec2Model ----------------------------
(***************************************************************************)
(* Model of the menu-widget backend (python-backend/main.py): the request  *)
(* pipeline of POST /generate-item-details -- item-name validation, the    *)
(* per-client sliding-window rate limiter, the repair of the language      *)
(* model's raw text, the keyword classifier -- and the handler that        *)
(* composes them.                                                          *)
(*                                                                         *)
(* Python strings are sequences of characters; a character is a one-letter *)
(* TLA+ string, except U+2014 (the em dash of the classifier's templates), *)
(* written "EMDASH", and the JSON escapes \b and \f, written "BS" and "FF".*)
(* len(), slicing, strip(), lower(), split(), `in` and the regular         *)
(* expressions of the source are computed on these sequences.  The texts   *)
(* range over printable ASCII plus newline, tab and the em dash.           *)
(***************************************************************************)
EXTENDS Integers, Sequences, FiniteSets

VARIABLES
    rate_limit_store,   \* main.py:47   dict: client_ip -> list of timestamps
    now,                \* the clock read by time.time(), in whole seconds
    openai_client,      \* main.py:42   "none" or "configured"
    admitted,           \* history: per client, the timestamps of every admitted call
    last,               \* the outcome of the most recent call or request
    limit,              \* the limit  argument of the direct check_rate_limit calls
    window,             \* the window argument of the direct check_rate_limit calls
    tasks,              \* the requests in flight on the event loop, by task id
    running             \* the task that holds the event loop, or NoTask

vars == <<rate_limit_store, now, openai_client, admitted, last, limit, window,
          tasks, running>>

-----------------------------------------------------------------------------
(* Program constants *)

MaxItemNameLen == 100
MaxDescriptionLen == 150
DescriptionKeep == 147
MaxUpsellLen == 100
UpsellKeep == 97
DefaultLimit == 10
DefaultWindow == 60

-----------------------------------------------------------------------------
(* Strings *)

MinOf(S) == CHOOSE x \in S : \A y \in S : x <= y
MaxOf(S) == CHOOSE x \in S : \A y \in S : x >= y

Rep(c, n) == [i \in 1..n |-> c]

UpperChars == <<"A", "B", "C", "D", "E", "F", "G", "H", "I", "J", "K", "L", "M", "N", "O", "P", "Q",
        "R", "S", "T", "U", "V", "W", "X", "Y", "Z">>
LowerChars == <<"a", "b", "c", "d", "e", "f", "g", "h", "i", "j", "k", "l", "m", "n", "o", "p", "q",
        "r", "s", "t", "u", "v", "w", "x", "y", "z">>

\* str.isspace() on the modelled alphabet
IsSpace(c) == c \in {" ", "\n", "\t", "\r"}

LowerChar(c) ==
    IF \E i \in 1..26 : UpperChars[i] = c
    THEN LowerChars[CHOOSE i \in 1..26 : UpperChars[i] = c]
    ELSE c

\* str.lower()
lower(s) == [i \in 1..Len(s) |-> LowerChar(s[i])]

\* str.strip()
strip(s) ==
    LET keep == {i \in 1..Len(s) : ~IsSpace(s[i])}
    IN  IF keep = {} THEN <<>> ELSE SubSeq(s, MinOf(keep), MaxOf(keep))

\* s[i:].startswith(pat), 1-based
MatchAt(s, i, pat) ==
    /\ i >= 1
    /\ i + Len(pat) - 1 <= Len(s)
    /\ \A k \in 1..Len(pat) : s[i + k - 1] = pat[k]

\* pat in s
Contains(s, pat) == \E i \in 1..(Len(s) - Len(pat) + 1) : MatchAt(s, i, pat)

\* any(word in s for word in words)
ContainsAny(s, words) == \E w \in words : Contains(s, w)

\* re.sub('[...]', '', s) for a character class
RemoveChars(s, class) == SelectSeq(s, LAMBDA c : c \notin class)

\* s.split(sep) for a one-character separator
RECURSIVE split(_, _)
split(s, sep) ==
    LET at == {i \in 1..Len(s) : s[i] = sep}
    IN  IF at = {} THEN <<s>>
        ELSE <<SubSeq(s, 1, MinOf(at) - 1)>>
                 \o split(SubSeq(s, MinOf(at) + 1, Len(s)), sep)

Ellipsis == <<".", ".", ".">>

\* s if len(s) <= cap else s[:keep] + "..."
Truncate(s, cap, keep) ==
    IF Len(s) > cap THEN SubSeq(s, 1, keep) \o Ellipsis ELSE s

-----------------------------------------------------------------------------
(* MenuItemRequest: the field validators (main.py:50-88) *)

ForbiddenChars == {"<", ">", "\"", "'"}

\* the literal patterns of suspicious_patterns (main.py:70-73)
SuspiciousTokens ==
    { <<"s", "c", "r", "i", "p", "t">>, <<"j", "a", "v", "a", "s", "c", "r", "i", "p", "t">>, <<"h", "t", "t", "p", ":", "/", "/">>, <<"h", "t", "t", "p", "s", ":", "/", "/">>,
      <<"e", "x", "e", "c", "(">>, <<"e", "v", "a", "l", "(">>, <<"s", "y", "s", "t", "e", "m", "(">> }

\* re.search(r'<.*>', s): a "<", then a ">" later on the same line
MatchesTag(s) ==
    \E i \in 1..Len(s) : \E j \in (i + 1)..Len(s) :
        /\ s[i] = "<"
        /\ s[j] = ">"
        /\ \A k \in (i + 1)..(j - 1) : s[k] # "\n"

\* re.search(r'import\s+os', s, re.IGNORECASE)
MatchesImportOs(s) ==
    LET ls == lower(s)
    IN  \E i \in 1..Len(s) :
            /\ MatchAt(ls, i, <<"i", "m", "p", "o", "r", "t">>)
            /\ \E j \in (i + 7)..Len(s) :
                   /\ \A k \in (i + 6)..(j - 1) : IsSpace(s[k])
                   /\ MatchAt(ls, j, <<"o", "s">>)

IsSuspicious(s) ==
    \/ LET ls == lower(s) IN \E tok \in SuspiciousTokens : Contains(ls, tok)
    \/ MatchesTag(s)
    \/ MatchesImportOs(s)

Accept(v) == [ok |-> TRUE, value |-> v, error |-> "none"]
Reject(msg) == [ok |-> FALSE, value |-> <<>>, error |-> msg]

\* main.py:57-79.  Returns the cleaned name, or the ValueError raised.
validate_item_name(v) ==
    IF v = <<>> \/ strip(v) = <<>>
    THEN Reject("Item name cannot be empty")
    ELSE LET sanitized == RemoveChars(strip(v), ForbiddenChars)
         IN  IF Len(sanitized) > MaxItemNameLen
             THEN Reject("Item name too long (max 100 characters)")
             ELSE IF IsSuspicious(sanitized)
             THEN Reject("Invalid characters detected in item name")
             ELSE Accept(sanitized)

AllowedModels == {"gpt-3.5-turbo", "gpt-4", "gpt-4-turbo"}

\* main.py:83-88
validate_gpt_model(v) == IF v \notin AllowedModels THEN "gpt-3.5-turbo" ELSE v

-----------------------------------------------------------------------------
(* json.loads on the modelled alphabet: objects, arrays, strings with the  *)
(* two-character escapes, numbers, and the literals Python accepts.  A     *)
(* parse result is [ok, val, pos]; pos is the index after the value.       *)
(* \uXXXX escapes and float overflow/underflow are outside the alphabet.   *)

JsonWs == {" ", "\t", "\n", "\r"}
Digits == {"0", "1", "2", "3", "4", "5", "6", "7", "8", "9"}

Fail == [ok |-> FALSE]
Parsed(v, p) == [ok |-> TRUE, val |-> v, pos |-> p]

JString(s) == [t |-> "string", s |-> s]
JNumber(z) == [t |-> "number", zero |-> z]
JBool(b) == [t |-> "bool", b |-> b]
JNull == [t |-> "null"]
JArray(items) == [t |-> "array", items |-> items]
JObject(members) == [t |-> "object", members |-> members]

SkipWs(s, i) ==
    LET stops == {j \in i..Len(s) : s[j] \notin JsonWs}
    IN  IF stops = {} THEN Len(s) + 1 ELSE MinOf(stops)

DigitRunEnd(s, i) ==
    LET stops == {j \in i..Len(s) : s[j] \notin Digits}
    IN  IF stops = {} THEN Len(s) + 1 ELSE MinOf(stops)

CharAt(s, i) == IF i >= 1 /\ i <= Len(s) THEN s[i] ELSE "EOF"

\* NUMBER_RE of json.scanner: (-?(?:0|[1-9]\d*))(\.\d+)?([eE][-+]?\d+)?
ParseNumber(s, i) ==
    LET a == IF CharAt(s, i) = "-" THEN i + 1 ELSE i
        b == DigitRunEnd(s, a)
        intEnd == IF CharAt(s, a) = "0" THEN a + 1 ELSE b
        f == DigitRunEnd(s, intEnd + 1)
        fracEnd == IF CharAt(s, intEnd) = "." /\ f > intEnd + 1 THEN f ELSE intEnd
        e0 == IF CharAt(s, fracEnd + 1) \in {"+", "-"} THEN fracEnd + 2 ELSE fracEnd + 1
        e == DigitRunEnd(s, e0)
        expEnd == IF CharAt(s, fracEnd) \in {"e", "E"} /\ e > e0 THEN e ELSE fracEnd
        zero == \A k \in a..(fracEnd - 1) : s[k] \in {"0", "."}
    IN  IF b = a THEN Fail ELSE Parsed(JNumber(zero), expEnd)

Unescape(c) ==
    CASE c = "n" -> "\n"
      [] c = "t" -> "\t"
      [] c = "r" -> "\r"
      [] c = "b" -> "BS"
      [] c = "f" -> "FF"
      [] OTHER -> c

\* The number of consecutive backslashes that end just before index k
BackslashRun(s, lo, k) ==
    LET other == {m \in lo..(k - 1) : s[m] # "\\"}
    IN  (k - 1) - (IF other = {} THEN lo - 1 ELSE MaxOf(other))

\* Whether the character at k is the second character of an escape
Escaped(s, lo, k) ==
    k > lo /\ s[k - 1] = "\\" /\ BackslashRun(s, lo, k) % 2 = 1

\* py_scanstring, strict: lo is the index after the opening quote.  The string
\* ends at the first quote that no backslash escapes; an escape must be one of
\* the two-character escapes; a raw control character is an error.
ScanString(s, lo) ==
    LET closing == {j \in lo..Len(s) : s[j] = "\"" /\ ~Escaped(s, lo, j)}
        hi == MinOf(closing)
        cells == [k \in 1..(hi - lo) |->
                    [c |-> IF Escaped(s, lo, lo + k - 1)
                           THEN Unescape(s[lo + k - 1]) ELSE s[lo + k - 1],
                     opener |-> s[lo + k - 1] = "\\" /\ ~Escaped(s, lo, lo + k - 1)]]
        kept == SelectSeq(cells, LAMBDA x : ~x.opener)
    IN  IF closing = {} THEN Fail
        ELSE IF \E k \in lo..(hi - 1) :
                    \/ Escaped(s, lo, k)
                         /\ s[k] \notin {"\"", "\\", "/", "b", "f", "n", "r", "t"}
                    \/ ~Escaped(s, lo, k) /\ s[k] \in {"\n", "\t", "\r"}
        THEN Fail
        ELSE Parsed(JString([k \in 1..Len(kept) |-> kept[k].c]), hi + 1)

RECURSIVE ParseValue(_, _)
RECURSIVE ParseValueAt(_, _)
RECURSIVE ParseObject(_, _)
RECURSIVE ParseMembers(_, _, _)
RECURSIVE AfterKey(_, _, _)
RECURSIVE AfterColon(_, _, _, _)
RECURSIVE AfterMemberValue(_, _, _, _)
RECURSIVE AfterMember(_, _, _)
RECURSIVE ParseArray(_, _)
RECURSIVE ParseItems(_, _, _)
RECURSIVE AfterItemValue(_, _, _)
RECURSIVE AfterItem(_, _, _)

\* JSONObject: i is the index after "{" and the whitespace that follows it
ParseObject(s, i) ==
    IF CharAt(s, i) = "}" THEN Parsed(JObject(<<>>), i + 1)
    ELSE ParseMembers(s, i, <<>>)

\* a member starts with its key, a string
ParseMembers(s, i, acc) ==
    IF CharAt(s, i) # "\"" THEN Fail ELSE AfterKey(s, ScanString(s, i + 1), acc)

AfterKey(s, key, acc) ==
    IF ~key.ok THEN Fail ELSE AfterColon(s, key.val.s, SkipWs(s, key.pos), acc)

AfterColon(s, name, c, acc) ==
    IF CharAt(s, c) # ":" THEN Fail
    ELSE AfterMemberValue(s, name, ParseValue(s, c + 1), acc)

AfterMemberValue(s, name, v, acc) ==
    IF ~v.ok THEN Fail
    ELSE AfterMember(s, SkipWs(s, v.pos), Append(acc, [key |-> name, val |-> v.val]))

AfterMember(s, k, acc) ==
    IF CharAt(s, k) = "}" THEN Parsed(JObject(acc), k + 1)
    ELSE IF CharAt(s, k) = "," THEN ParseMembers(s, SkipWs(s, k + 1), acc)
    ELSE Fail

\* JSONArray: i is the index after "[" and the whitespace that follows it
ParseArray(s, i) ==
    IF CharAt(s, i) = "]" THEN Parsed(JArray(<<>>), i + 1)
    ELSE ParseItems(s, i, <<>>)

ParseItems(s, i, acc) == AfterItemValue(s, ParseValue(s, i), acc)

AfterItemValue(s, v, acc) ==
    IF ~v.ok THEN Fail ELSE AfterItem(s, SkipWs(s, v.pos), Append(acc, v.val))

AfterItem(s, k, acc) ==
    IF CharAt(s, k) = "]" THEN Parsed(JArray(acc), k + 1)
    ELSE IF CharAt(s, k) = "," THEN ParseItems(s, k + 1, acc)
    ELSE Fail

\* scan_once: i is the index of the value's first character
ParseValueAt(s, i) ==
    CASE CharAt(s, i) = "\"" -> ScanString(s, i + 1)
      [] CharAt(s, i) = "{" -> ParseObject(s, SkipWs(s, i + 1))
      [] CharAt(s, i) = "[" -> ParseArray(s, SkipWs(s, i + 1))
      [] MatchAt(s, i, <<"n", "u", "l", "l">>) -> Parsed(JNull, i + 4)
      [] MatchAt(s, i, <<"t", "r", "u", "e">>) -> Parsed(JBool(TRUE), i + 4)
      [] MatchAt(s, i, <<"f", "a", "l", "s", "e">>) -> Parsed(JBool(FALSE), i + 5)
      [] MatchAt(s, i, <<"N", "a", "N">>) -> Parsed(JNumber(FALSE), i + 3)
      [] MatchAt(s, i, <<"I", "n", "f", "i", "n", "i", "t", "y">>) -> Parsed(JNumber(FALSE), i + 8)
      [] MatchAt(s, i, <<"-", "I", "n", "f", "i", "n", "i", "t", "y">>) -> Parsed(JNumber(FALSE), i + 9)
      [] OTHER -> ParseNumber(s, i)

\* a value, after leading whitespace
ParseValue(s, i) == ParseValueAt(s, SkipWs(s, i))

\* JSONDecoder.decode: after the value only whitespace may follow
EndOfValue(text, r) ==
    IF ~r.ok THEN Fail
    ELSE IF SkipWs(text, r.pos) <= Len(text) THEN Fail
    ELSE r

\* json.loads(text)
json_loads(text) == EndOfValue(text, ParseValue(text, 1))

\* dict.get(key): the last member of that name, else None
dict_get(members, key) ==
    LET at == {k \in 1..Len(members) : members[k].key = key}
    IN  IF at = {} THEN JNull ELSE members[MaxOf(at)].val

\* bool(v)
Truthy(v) ==
    CASE v.t = "string" -> v.s # <<>>
      [] v.t = "number" -> ~v.zero
      [] v.t = "bool" -> v.b
      [] v.t = "null" -> FALSE
      [] v.t = "array" -> v.items # <<>>
      [] v.t = "object" -> v.members # <<>>

-----------------------------------------------------------------------------
(* PromptEngineer.validate_ai_response (main.py:183-236) *)

CueWords == { <<"p", "a", "i", "r">>, <<"a", "d", "d">>, <<"c", "o", "m", "b", "o">>, <<"s", "u", "g", "g", "e", "s", "t">>, <<"t", "r", "y">> }
UpsellLabels == { <<"C", "o", "m", "b", "o", ":">>, <<"c", "o", "m", "b", "o", ":">>, <<"s", "u", "g", "g", "e", "s", "t", "i", "o", "n", ":">>, <<"s", "u", "g", "g", "e", "s", "t", ":">> }

GenericDescription == <<"D", "e", "l", "i", "c", "i", "o", "u", "s", " ", "d", "i", "s", "h", " ", "p", "r",
        "e", "p", "a", "r", "e", "d", " ", "w", "i", "t", "h", " ", "c", "a", "r", "e", ".">>
GenericUpsell == <<"P", "a", "i", "r", " ", "i", "t", " ", "w", "i", "t", "h", " ", "y", "o", "u", "r",
        " ", "f", "a", "v", "o", "r", "i", "t", "e", " ", "b", "e", "v", "e", "r", "a", "g",
        "e", "!">>

Returned(d, u) ==
    [raised |-> "none", description |-> d, upsell_suggestion |-> u]
Raised(exc) ==
    [raised |-> exc, description |-> <<>>, upsell_suggestion |-> <<>>]

\* re.sub(r'(Combo:|combo:|suggestion:|suggest:)', '', s).  No occurrence of a
\* label overlaps another one, so the result drops exactly the characters that
\* lie inside some occurrence.
StripLabels(s) ==
    LET inLabel(k) == \E lab \in UpsellLabels : \E i \in (k - Len(lab) + 1)..k :
                          MatchAt(s, i, lab)
        cells == [k \in 1..Len(s) |-> [c |-> s[k], drop |-> inLabel(k)]]
        kept == SelectSeq(cells, LAMBDA x : ~x.drop)
    IN  [k \in 1..Len(kept) |-> kept[k].c]

\* main.py:213: the stripped, non-empty lines of the text
NonEmptyLines(text) ==
    SelectSeq([i \in 1..Len(split(text, "\n")) |-> strip(split(text, "\n")[i])],
              LAMBDA l : l # <<>>)

\* main.py:215-217
HeuristicDescription(lines) ==
    Truncate(IF lines # <<>> THEN lines[1] ELSE GenericDescription,
             MaxDescriptionLen, DescriptionKeep)

\* main.py:220-227: the first later line with a cue word, else the second line
UpsellLine(lines) ==
    LET cued == {i \in 2..Len(lines) : ContainsAny(lower(lines[i]), CueWords)}
    IN  IF cued # {} THEN lines[MinOf(cued)]
        ELSE IF Len(lines) > 1 THEN lines[2]
        ELSE <<>>

\* main.py:230-231
OrGenericUpsell(upsell) == IF upsell = <<>> THEN GenericUpsell ELSE upsell

\* main.py:229-231
HeuristicUpsell(lines) == OrGenericUpsell(strip(StripLabels(UpsellLine(lines))))

RepairLines(lines) == Returned(HeuristicDescription(lines), HeuristicUpsell(lines))

\* main.py:211-236: the except branch
HeuristicRepair(response_text) == RepairLines(NonEmptyLines(response_text))

\* main.py:193-209: the two fields of a parsed object.  The truth test comes
\* before .strip(), and .strip() exists on strings only.
RepairFields(response_text, d, u) ==
    IF ~Truthy(d) \/ ~Truthy(u) THEN HeuristicRepair(response_text)
    ELSE IF d.t # "string" \/ u.t # "string" THEN Raised("AttributeError")
    ELSE Returned(Truncate(strip(d.s), MaxDescriptionLen, DescriptionKeep),
                  Truncate(strip(u.s), MaxUpsellLen, UpsellKeep))

\* main.py:190-211: what json.loads gave.  A JSONDecodeError is caught; .get
\* exists on a dict only, and the AttributeError is not caught.
RepairParsed(response_text, parsed) ==
    IF ~parsed.ok THEN HeuristicRepair(response_text)
    ELSE IF parsed.val.t # "object" THEN Raised("AttributeError")
    ELSE RepairFields(response_text,
                      dict_get(parsed.val.members, <<"d", "e", "s", "c", "r", "i", "p", "t", "i", "o", "n">>),
                      dict_get(parsed.val.members, <<"u", "p", "s", "e", "l", "l", "_", "s", "u", "g", "g", "e", "s", "t", "i", "o", "n">>))

\* main.py:184-236.  json.JSONDecodeError and ValueError are caught and take the
\* heuristic branch; an AttributeError leaves the function.
validate_ai_response(response_text) ==
    RepairParsed(response_text, json_loads(strip(response_text)))

-----------------------------------------------------------------------------
(* get_simulate_response (main.py:239-282) *)

Category(words, suffix, upsell) ==
    [words |-> words, suffix |-> suffix, upsell |-> upsell]

\* the if/elif chain, in order
Categories == <<
    Category({ <<"p", "i", "z", "z", "a">>, <<"p", "a", "s", "t", "a">> },
        <<" ", "EMDASH", " ", "f", "r", "e", "s", "h", "l", "y", " ", "b", "a", "k", "e", "d",
        " ", "w", "i", "t", "h", " ", "p", "r", "e", "m", "i", "u", "m", " ", "i", "n", "g",
        "r", "e", "d", "i", "e", "n", "t", "s", ",", " ", "a", "r", "o", "m", "a", "t", "i",
        "c", " ", "h", "e", "r", "b", "s", ",", " ", "a", "n", "d", " ", "a", "u", "t", "h",
        "e", "n", "t", "i", "c", " ", "I", "t", "a", "l", "i", "a", "n", " ", "f", "l", "a",
        "v", "o", "r", "s", ".">>,
        <<"P", "a", "i", "r", " ", "i", "t", " ", "w", "i", "t", "h", " ", "a", " ", "r", "e",
        "f", "r", "e", "s", "h", "i", "n", "g", " ", "I", "t", "a", "l", "i", "a", "n", " ",
        "S", "o", "d", "a", "!">>),
    Category({ <<"b", "u", "r", "g", "e", "r">>, <<"s", "a", "n", "d", "w", "i", "c", "h">> },
        <<" ", "EMDASH", " ", "j", "u", "i", "c", "y", ",", " ", "p", "e", "r", "f", "e", "c",
        "t", "l", "y", " ", "g", "r", "i", "l", "l", "e", "d", " ", "w", "i", "t", "h", " ",
        "f", "r", "e", "s", "h", " ", "v", "e", "g", "e", "t", "a", "b", "l", "e", "s", " ",
        "a", "n", "d", " ", "s", "p", "e", "c", "i", "a", "l", " ", "s", "a", "u", "c", "e",
        ".">>,
        <<"A", "d", "d", " ", "c", "r", "i", "s", "p", "y", " ", "F", "r", "e", "n", "c", "h",
        " ", "F", "r", "i", "e", "s", " ", "a", "n", "d", " ", "a", " ", "c", "o", "l", "d",
        " ", "d", "r", "i", "n", "k", "!">>),
    Category({ <<"c", "u", "r", "r", "y">>, <<"b", "i", "r", "y", "a", "n", "i">>, <<"t", "i", "k", "k", "a">> },
        <<" ", "EMDASH", " ", "r", "i", "c", "h", ",", " ", "a", "r", "o", "m", "a", "t", "i",
        "c", " ", "s", "p", "i", "c", "e", "s", " ", "w", "i", "t", "h", " ", "t", "e", "n",
        "d", "e", "r", " ", "m", "e", "a", "t", " ", "a", "n", "d", " ", "a", "u", "t", "h",
        "e", "n", "t", "i", "c", " ", "I", "n", "d", "i", "a", "n", " ", "f", "l", "a", "v",
        "o", "r", "s", ".">>,
        <<"P", "a", "i", "r", " ", "i", "t", " ", "w", "i", "t", "h", " ", "f", "l", "u", "f",
        "f", "y", " ", "N", "a", "a", "n", " ", "b", "r", "e", "a", "d", " ", "a", "n", "d",
        " ", "M", "a", "n", "g", "o", " ", "L", "a", "s", "s", "i", "!">>),
    Category({ <<"s", "u", "s", "h", "i">>, <<"r", "o", "l", "l">> },
        <<" ", "EMDASH", " ", "f", "r", "e", "s", "h", ",", " ", "p", "r", "e", "m", "i", "u",
        "m", " ", "f", "i", "s", "h", " ", "w", "i", "t", "h", " ", "p", "e", "r", "f", "e",
        "c", "t", "l", "y", " ", "s", "e", "a", "s", "o", "n", "e", "d", " ", "r", "i", "c",
        "e", " ", "a", "n", "d", " ", "c", "r", "i", "s", "p", " ", "v", "e", "g", "e", "t",
        "a", "b", "l", "e", "s", ".">>,
        <<"A", "d", "d", " ", "m", "i", "s", "o", " ", "s", "o", "u", "p", " ", "a", "n", "d",
        " ", "g", "r", "e", "e", "n", " ", "t", "e", "a", "!">>),
    Category({ <<"s", "a", "l", "a", "d">>, <<"b", "o", "w", "l">> },
        <<" ", "EMDASH", " ", "f", "r", "e", "s", "h", ",", " ", "c", "r", "i", "s", "p", " ",
        "v", "e", "g", "e", "t", "a", "b", "l", "e", "s", " ", "w", "i", "t", "h", " ", "h",
        "e", "a", "l", "t", "h", "y", " ", "g", "r", "a", "i", "n", "s", " ", "a", "n", "d",
        " ", "l", "i", "g", "h", "t", " ", "d", "r", "e", "s", "s", "i", "n", "g", ".">>,
        <<"A", "d", "d", " ", "a", " ", "p", "r", "o", "t", "e", "i", "n", " ", "b", "o", "o",
        "s", "t", " ", "w", "i", "t", "h", " ", "g", "r", "i", "l", "l", "e", "d", " ", "c",
        "h", "i", "c", "k", "e", "n", "!">>),
    Category({ <<"d", "e", "s", "s", "e", "r", "t">>, <<"c", "a", "k", "e">>, <<"i", "c", "e", " ", "c", "r", "e", "a", "m">> },
        <<" ", "EMDASH", " ", "s", "w", "e", "e", "t", ",", " ", "i", "n", "d", "u", "l", "g",
        "e", "n", "t", " ", "t", "r", "e", "a", "t", " ", "m", "a", "d", "e", " ", "w", "i",
        "t", "h", " ", "p", "r", "e", "m", "i", "u", "m", " ", "i", "n", "g", "r", "e", "d",
        "i", "e", "n", "t", "s", ".">>,
        <<"P", "a", "i", "r", " ", "i", "t", " ", "w", "i", "t", "h", " ", "h", "o", "t", " ",
        "c", "o", "f", "f", "e", "e", " ", "o", "r", " ", "t", "e", "a", "!">>),
    Category({ <<"d", "r", "i", "n", "k">>, <<"j", "u", "i", "c", "e">>, <<"s", "m", "o", "o", "t", "h", "i", "e">> },
        <<" ", "EMDASH", " ", "r", "e", "f", "r", "e", "s", "h", "i", "n", "g", ",", " ", "n",
        "a", "t", "u", "r", "a", "l", " ", "f", "l", "a", "v", "o", "r", "s", " ", "w", "i",
        "t", "h", " ", "n", "o", " ", "a", "r", "t", "i", "f", "i", "c", "i", "a", "l", " ",
        "a", "d", "d", "i", "t", "i", "v", "e", "s", ".">>,
        <<"A", "d", "d", " ", "a", " ", "l", "i", "g", "h", "t", " ", "s", "n", "a", "c", "k",
        " ", "o", "r", " ", "d", "e", "s", "s", "e", "r", "t", "!">>) >>

DefaultCategory ==
    Category({},
        <<" ", "EMDASH", " ", "d", "e", "l", "i", "c", "i", "o", "u", "s", ",", " ", "f", "r",
        "e", "s", "h", "l", "y", " ", "p", "r", "e", "p", "a", "r", "e", "d", " ", "w", "i",
        "t", "h", " ", "q", "u", "a", "l", "i", "t", "y", " ", "i", "n", "g", "r", "e", "d",
        "i", "e", "n", "t", "s", " ", "a", "n", "d", " ", "a", "u", "t", "h", "e", "n", "t",
        "i", "c", " ", "f", "l", "a", "v", "o", "r", "s", ".">>,
        <<"P", "a", "i", "r", " ", "i", "t", " ", "w", "i", "t", "h", " ", "y", "o", "u", "r",
        " ", "f", "a", "v", "o", "r", "i", "t", "e", " ", "b", "e", "v", "e", "r", "a", "g",
        "e", "!">>)

get_simulate_response(item_name) ==
    LET item == lower(item_name)
        hits == {k \in 1..Len(Categories) : ContainsAny(item, Categories[k].words)}
        cat == IF hits = {} THEN DefaultCategory ELSE Categories[MinOf(hits)]
    IN  [description |-> item_name \o cat.suffix, upsell_suggestion |-> cat.upsell]

-----------------------------------------------------------------------------
(* check_rate_limit (main.py:97-118) *)

\* rate_limit_store.get(client_ip, [])
EntryOf(store, client_ip) ==
    IF client_ip \in DOMAIN store THEN store[client_ip] ELSE <<>>

\* main.py:103-104
EnsureKey(store, client_ip) ==
    [c \in DOMAIN store \cup {client_ip} |-> EntryOf(store, c)]

\* A comprehension that keeps a timestamp exactly win seconds old
PruneInclusive(times, current_time, win) ==
    SelectSeq(times, LAMBDA req_time : current_time - req_time <= win)

\* main.py:107-110: the list comprehension
Prune(times, current_time, win) ==
    SelectSeq(times, LAMBDA req_time : current_time - req_time < win)

\* A comparison that lets one more request through
LimitPassed(times, lim) == Len(times) > lim

\* main.py:113
LimitExceeded(times, lim) == Len(times) >= lim

\* A limiter that records the rejected attempt too
RecordingLimiter(store, client_ip, current_time, lim, win) ==
    LET pruned == [EnsureKey(store, client_ip) EXCEPT
                      ![client_ip] = Prune(@, current_time, win)]
    IN  [ok |-> ~LimitExceeded(pruned[client_ip], lim),
         store |-> [pruned EXCEPT ![client_ip] = Append(@, current_time)]]

\* main.py:101-118.  Returns the bool and the store the call leaves behind.
check_rate_limit(store, client_ip, current_time, lim, win) ==
    LET pruned == [EnsureKey(store, client_ip) EXCEPT
                      ![client_ip] = Prune(@, current_time, win)]
    IN  IF LimitExceeded(pruned[client_ip], lim)
        THEN [ok |-> FALSE, store |-> pruned]
        ELSE [ok |-> TRUE,
              store |-> [pruned EXCEPT ![client_ip] = Append(@, current_time)]]

-----------------------------------------------------------------------------
(* The endpoint POST /generate-item-details (main.py:316-400) *)

NoHost == <<>>

\* main.py:121-126.  headers.get("X-Forwarded-For") is None or a string; the
\* connection has no client address when request.client is None.
get_client_ip(req) ==
    IF req.forwarded # <<>>
    THEN [raised |-> "none", ip |-> split(req.forwarded, ",")[1]]
    ELSE IF req.host = NoHost
    THEN [raised |-> "AttributeError", ip |-> <<>>]
    ELSE [raised |-> "none", ip |-> req.host]

NotRun == [raised |-> "not run", description |-> <<>>, upsell_suggestion |-> <<>>]

Success(content, model_used, called, repaired) ==
    [status |-> 200,
     description |-> content.description,
     upsell_suggestion |-> content.upsell_suggestion,
     model_used |-> model_used,
     called |-> called,
     repaired |-> repaired]

Failure(status) ==
    [status |-> status, description |-> <<>>, upsell_suggestion |-> <<>>,
     model_used |-> "none", called |-> FALSE, repaired |-> NotRun]

\* main.py:346-352, 386-392: the classifier's pair, tagged
Simulated(req, model_used, called, repaired) ==
    Success(get_simulate_response(req.item_name), model_used, called, repaired)

\* main.py:374-392: the repaired pair, or the fallback when the repair raised
FromRepaired(req, repaired) ==
    IF repaired.raised # "none" THEN Simulated(req, "fallback", TRUE, repaired)
    ELSE Success(repaired, req.gpt_model, TRUE, repaired)

\* A handler that lets the failure of the model call out as a 500
PropagatingResponse(req, client, outcome) ==
    IF req.simulate \/ client = "none" THEN Simulated(req, "simulate", FALSE, NotRun)
    ELSE IF outcome.kind # "text" THEN Failure(500)
    ELSE FromRepaired(req, validate_ai_response(strip(outcome.content)))

\* main.py:344-392: what the handler does once the request is admitted.
\* outcome is what openai_client.chat.completions.create does: it raises
\* (kind "timeout", "error"), or returns a completion whose message content is
\* None (kind "nocontent") or a text (kind "text").
GenerateResponse(req, client, outcome) ==
    IF req.simulate \/ client = "none" THEN Simulated(req, "simulate", FALSE, NotRun)
    ELSE IF outcome.kind # "text" THEN Simulated(req, "fallback", TRUE, NotRun)
    ELSE FromRepaired(req, validate_ai_response(strip(outcome.content)))

\* main.py:338-342: the rate-limit check decides
AfterRateLimit(req, client, outcome, ip, rl) ==
    IF ~rl.ok
    THEN [store |-> rl.store, admitted |-> FALSE, ip |-> ip, response |-> Failure(429)]
    ELSE [store |-> rl.store, admitted |-> TRUE, ip |-> ip,
          response |-> GenerateResponse(req, client, outcome)]

\* main.py:337, 396-400: an exception outside the model call is answered 500
AfterClientIp(req, store, current_time, client, outcome, who) ==
    IF who.raised # "none"
    THEN [store |-> store, admitted |-> FALSE, ip |-> <<>>, response |-> Failure(500)]
    ELSE AfterRateLimit(req, client, outcome, who.ip,
             check_rate_limit(store, who.ip, current_time, DefaultLimit, DefaultWindow))

\* main.py:335-400: the handler body on a validated request
generate_item_details(req, store, current_time, client, outcome) ==
    AfterClientIp(req, store, current_time, client, outcome, get_client_ip(req))

\* A route that runs the handler and looks at the validation afterwards
ValidatedAfterwards(req, r) ==
    IF ~req.ok
    THEN [store |-> r.store, admitted |-> FALSE, ip |-> <<>>, response |-> Failure(422)]
    ELSE r

DispatchAfterRateLimit(req, store, current_time, client, outcome) ==
    ValidatedAfterwards(req, generate_item_details(req, store, current_time, client, outcome))

\* main.py:50-88: the body model the framework builds before the handler runs
BuildRequest(raw, name) ==
    [ok |-> name.ok,
     item_name |-> name.value,
     simulate |-> raw.simulate,
     gpt_model |-> validate_gpt_model(raw.gpt_model),
     forwarded |-> raw.forwarded,
     host |-> raw.host]

MenuItemRequest(raw) == BuildRequest(raw, validate_item_name(raw.item_name))

\* main.py:316-317: a body that fails validation is answered 422 and the
\* handler is not called
Dispatch(req, store, current_time, client, outcome) ==
    IF ~req.ok
    THEN [store |-> store, admitted |-> FALSE, ip |-> <<>>, response |-> Failure(422)]
    ELSE generate_item_details(req, store, current_time, client, outcome)

\* main.py:316-317: the route: the body is validated into a MenuItemRequest,
\* then the handler runs
PostGenerateItemDetails(raw, store, current_time, client, outcome) ==
    Dispatch(MenuItemRequest(raw), store, current_time, client, outcome)

-----------------------------------------------------------------------------
(* Bounds and inputs *)

Quantum == 30           \* the clock advances in steps of this many seconds
MaxTime == 60           \* the clock stops here
MaxLimit == 2           \* direct calls: limit ranges over 1..MaxLimit
MaxWindow == 2          \* direct calls: window ranges over 1..MaxWindow
MaxTimeRate == 3        \* direct calls: the clock advances by 1 up to here
NTasks == 2             \* requests in flight at once

ClientA == <<"1", "0", ".", "0", ".", "0", ".", "1">>
ClientB == <<"1", "0", ".", "0", ".", "0", ".", "2">>
Clients == {ClientA, ClientB}

NoTask == 0
NoLast == [op |-> "none"]

RawRequest(name, simulate, model, forwarded, host) ==
    [item_name |-> name, simulate |-> simulate, gpt_model |-> model,
     forwarded |-> forwarded, host |-> host]

Timeout == [kind |-> "timeout", content |-> <<>>]
TransportError == [kind |-> "error", content |-> <<>>]
NoContent == [kind |-> "nocontent", content |-> <<>>]
Text(t) == [kind |-> "text", content |-> t]

RecordAdmitted(log, ip, t) ==
    [c \in DOMAIN log \cup {ip} |->
        IF c = ip THEN Append(EntryOf(log, c), t) ELSE log[c]]

-----------------------------------------------------------------------------
(* Actions *)

\* time.time() moves on
Tick(step, max) ==
    /\ now + step <= max
    /\ now' = now + step
    /\ UNCHANGED <<rate_limit_store, openai_client, admitted, last, limit, window,
                   tasks, running>>

\* What a request leaves behind
Respond(raw, outcome, r) ==
    /\ rate_limit_store' = r.store
    /\ admitted' = IF r.admitted THEN RecordAdmitted(admitted, r.ip, now)
                   ELSE admitted
    /\ last' = [op |-> "request", raw |-> raw, outcome |-> outcome, at |-> now,
                ip |-> r.ip, response |-> r.response]
    /\ UNCHANGED <<now, openai_client, limit, window, tasks, running>>

\* One request, from its arrival to its response
Post(raw, outcome) ==
    Respond(raw, outcome,
            PostGenerateItemDetails(raw, rate_limit_store, now, openai_client, outcome))

\* What a direct call leaves behind
Return(client_ip, r) ==
    /\ rate_limit_store' = r.store
    /\ admitted' = IF r.ok THEN RecordAdmitted(admitted, client_ip, now)
                   ELSE admitted
    /\ last' = [op |-> "check", ip |-> client_ip, ok |-> r.ok, at |-> now]
    /\ UNCHANGED <<now, openai_client, limit, window, tasks, running>>

\* A direct call check_rate_limit(client_ip, limit, window)
CheckRateLimit(client_ip) ==
    Return(client_ip, check_rate_limit(rate_limit_store, client_ip, now, limit, window))

-----------------------------------------------------------------------------
(* Spec: requests one after another, the handler's limit and window *)

ItemPizza == <<"M", "a", "r", "g", "h", "e", "r", "i", "t", "a", " ", "P", "i", "z", "z", "a">>
ItemScript == <<"<", "s", "c", "r", "i", "p", "t", ">", "a", "l", "e", "r", "t", "(", "1", ")", "<",
        "/", "s", "c", "r", "i", "p", "t", ">">>

RequestsSpec ==
    { RawRequest(ItemPizza, FALSE, "gpt-4", <<>>, ClientA),
      RawRequest(ItemPizza, TRUE, "gpt-4", <<"1", "0", ".", "0", ".", "0", ".", "1", ",", "1", "7", "2", ".", "1", "6", ".", "0",
        ".", "9">>, ClientB),
      RawRequest(ItemScript, FALSE, "gpt-4", <<>>, ClientA) }

InitParams ==
    /\ now = 0
    /\ limit = DefaultLimit
    /\ window = DefaultWindow
    /\ tasks = <<>>
    /\ running = NoTask

InitCommon == InitParams /\ last = NoLast

Init ==
    /\ InitCommon
    /\ rate_limit_store = <<>>
    /\ admitted = <<>>
    /\ openai_client \in {"none", "configured"}

Next ==
    \/ Tick(Quantum, MaxTime)
    \/ \E raw \in RequestsSpec : Post(raw, Timeout)

Spec == Init /\ [][Next]_vars

-----------------------------------------------------------------------------
(* SpecRate: direct calls of check_rate_limit, two clients, every limit in *)
(* 1..MaxLimit and window in 1..MaxWindow                                  *)

InitRate ==
    /\ now = 0
    /\ last = NoLast
    /\ limit \in 1..MaxLimit
    /\ window \in 1..MaxWindow
    /\ tasks = <<>>
    /\ running = NoTask
    /\ rate_limit_store = <<>>
    /\ admitted = <<>>
    /\ openai_client = "none"

NextRate ==
    \/ Tick(1, MaxTimeRate)
    \/ \E c \in Clients : CheckRateLimit(c)

SpecRate == InitRate /\ [][NextRate]_vars

-----------------------------------------------------------------------------
(* SpecValidate: validate_item_name on every raw name of RawNames *)

NamePrefixes == { <<>>, <<" ">>, <<"<">>, <<"'">> }
NameCores ==
    { <<>>, <<"P", "i", "z", "z", "a">>, <<"C", "h", "i", "c", "k", "e", "n", " ", "T", "i", "k", "k", "a">>, <<"s", "c", "r", "i", "p", "t">>, <<"J", "a", "v", "a", "S", "c", "r", "i", "p", "t">>,
      <<"s", "e", "e", " ", "h", "t", "t", "p", ":", "/", "/", "x">>, <<"i", "m", "p", "o", "r", "t", " ", " ", "o", "s">>, <<"e", "v", "a", "l", "(", "x", ")">>, <<"a", "\"", "b">>, <<" ", " ">>,
      Rep("a", MaxItemNameLen), Rep("a", MaxItemNameLen - 1) }
NameSuffixes == { <<>>, <<" ">>, <<">">>, <<"\"", "x">> }

RawNames == { p \o c \o s : p \in NamePrefixes, c \in NameCores, s \in NameSuffixes }

InitValidate ==
    /\ InitParams
    /\ rate_limit_store = <<>>
    /\ admitted = <<>>
    /\ openai_client = "none"
    /\ \E v \in RawNames : last = [op |-> "name", input |-> v]

\* MenuItemRequest(item_name=v): the validator runs on the raw name
ValidateName ==
    /\ last.op = "name"
    /\ last' = [op |-> "validated", input |-> last.input,
                result |-> validate_item_name(last.input)]
    /\ UNCHANGED <<rate_limit_store, now, openai_client, admitted, limit, window,
                   tasks, running>>

NextValidate == ValidateName

SpecValidate == InitValidate /\ [][NextValidate]_vars

-----------------------------------------------------------------------------
(* SpecRepair: validate_ai_response on every text of RawTexts *)

Quoted(s) == <<"\"">> \o s \o <<"\"">>

DescriptionValues ==
    { Quoted(<<"T", "a", "s", "t", "y", " ", "a", "n", "d", " ", "f", "r", "e", "s", "h", ".">>), Quoted(<<" ">>), Quoted(<<>>),
      Quoted(Rep("d", MaxDescriptionLen)), Quoted(Rep("d", MaxDescriptionLen + 1)),
      Quoted(Rep("d", 200)), <<"5">>, <<"n", "u", "l", "l">> }
UpsellValues ==
    { Quoted(<<"A", "d", "d", " ", "f", "r", "i", "e", "s">>), Quoted(<<>>), Quoted(Rep("u", MaxUpsellLen)),
      Quoted(Rep("u", MaxUpsellLen + 1)), <<"[", "\"", "x", "\"", "]">>, <<"t", "r", "u", "e">> }

ObjectText(d, u) ==
    <<"{", "\"", "d", "e", "s", "c", "r", "i", "p", "t", "i", "o", "n", "\"", ":", " ">> \o d \o <<",", " ", "\"", "u", "p", "s", "e", "l", "l", "_", "s", "u", "g", "g", "e", "s", "t",
        "i", "o", "n", "\"", ":", " ">> \o u \o <<"}">>

ObjectTexts ==
    { pad \o ObjectText(d, u) : pad \in { <<>>, <<"\n", " ", " ">> },
                                d \in DescriptionValues, u \in UpsellValues }

FirstLines == { <<"A", " ", "f", "i", "n", "e", " ", "d", "i", "s", "h", ".">>, Rep("d", MaxDescriptionLen + 1) }
SecondLines ==
    { <<>>, <<"\n", "s", "e", "r", "v", "e", "d", " ", "h", "o", "t">>, <<"\n", "C", "o", "m", "b", "o", ":", " ", "f", "r", "i", "e", "s", " ", "a", "n", "d",
        " ", "c", "o", "l", "a">>, <<"\n", "s", "u", "g", "g", "e", "s", "t", "i", "o", "n", ":">>,
      <<"\n">> \o Rep("u", MaxUpsellLen + 1) }
ThirdLines == { <<>>, <<"\n", "\n", "W", "e", " ", "s", "u", "g", "g", "e", "s", "t", " ", "a", " ", "l", "a",
        "s", "s", "i">> }

LineTexts == { a \o b \o c : a \in FirstLines, b \in SecondLines, c \in ThirdLines }

OtherTexts ==
    { <<>>, <<" ", " ">>, <<"4", "2">>, <<"[", "]">>, <<"n", "u", "l", "l">>, <<"\"", "t", "e", "x", "t", "\"">>, <<"{", "}">>,
      <<"{", "\"", "d", "e", "s", "c", "r", "i", "p", "t", "i", "o", "n", "\"", ":", " ", "\"",
        "T", "a", "s", "t", "y", "\"", "}">>,
      <<"{", "\"", "d", "e", "s", "c", "r", "i", "p", "t", "i", "o", "n", "\"", ":", " ", "\"",
        "T", "a", "s", "t", "y", "\"", ",", " ", "\"", "u", "p", "s", "e", "l", "l", "_", "s",
        "u", "g", "g", "e", "s", "t", "i", "o", "n", "\"", ":", " ", "\"", "x", "\"", ",", "}">>,
      <<"H", "e", "r", "e", " ", "y", "o", "u", " ", "g", "o", ":", " ", "{", "\"", "d", "e",
        "s", "c", "r", "i", "p", "t", "i", "o", "n", "\"", ":", " ", "\"", "T", "a", "s", "t",
        "y", "\"", ",", " ", "\"", "u", "p", "s", "e", "l", "l", "_", "s", "u", "g", "g", "e",
        "s", "t", "i", "o", "n", "\"", ":", " ", "\"", "x", "\"", "}">> }

RawTexts == ObjectTexts \cup LineTexts \cup OtherTexts

InitRepair ==
    /\ InitParams
    /\ rate_limit_store = <<>>
    /\ admitted = <<>>
    /\ openai_client = "configured"
    /\ \E t \in RawTexts : last = [op |-> "text", input |-> t]

\* PromptEngineer.validate_ai_response(t)
Repair ==
    /\ last.op = "text"
    /\ last' = [op |-> "repaired", input |-> last.input,
                result |-> validate_ai_response(last.input)]
    /\ UNCHANGED <<rate_limit_store, now, openai_client, admitted, limit, window,
                   tasks, running>>

NextRepair == Repair

SpecRepair == InitRepair /\ [][NextRepair]_vars

-----------------------------------------------------------------------------
(* SpecContent: requests on every generation path.  The client has already *)
(* been admitted DefaultLimit - 1 times at time 0.                         *)

ContentNames ==
    { ItemPizza, ItemScript, <<>>, <<"<", ">">>, <<"p", "i", "z", "z", "a", " ", "b", "o", "w", "l">>, <<"V", "e", "g", " ", "B", "u", "r", "g", "e", "r">>,
      <<"C", "h", "i", "c", "k", "e", "n", " ", "T", "i", "k", "k", "a">>, <<"S", "p", "r", "i", "n", "g", " ", "R", "o", "l", "l">>, <<"G", "r", "e", "e", "k", " ", "S", "a", "l", "a", "d">>, <<"C", "h", "e", "e", "s", "e", "c", "a", "k", "e">>,
      <<"M", "a", "n", "g", "o", " ", "S", "m", "o", "o", "t", "h", "i", "e">>, <<"M", "a", "s", "a", "l", "a", " ", "T", "e", "a">>,
      Rep("a", MaxItemNameLen), Rep("a", 72), Rep("a", 73) }

ContentTexts ==
    { ObjectText(Quoted(<<"T", "a", "s", "t", "y", " ", "a", "n", "d", " ", "f", "r", "e", "s", "h", ".">>), Quoted(<<"A", "d", "d", " ", "f", "r", "i", "e", "s">>)),
      ObjectText(Quoted(Rep("d", 200)), Quoted(Rep("u", MaxUpsellLen + 1))),
      ObjectText(Quoted(<<" ">>), Quoted(<<"A", "d", "d", " ", "f", "r", "i", "e", "s">>)),
      ObjectText(<<"5">>, Quoted(<<"A", "d", "d", " ", "f", "r", "i", "e", "s">>)),
      ObjectText(Quoted(<<"T", "a", "s", "t", "y">>), <<"n", "u", "l", "l">>),
      <<"[", "]">>, <<"4", "2">>, <<>>,
      <<"A", " ", "f", "i", "n", "e", " ", "d", "i", "s", "h", ".", "\n", "C", "o", "m", "b",
        "o", ":", " ", "f", "r", "i", "e", "s", " ", "a", "n", "d", " ", "c", "o", "l", "a">>,
      <<"A", " ", "f", "i", "n", "e", " ", "d", "i", "s", "h", ".", "\n">> \o Rep("u", MaxUpsellLen + 1),
      Rep("d", MaxDescriptionLen + 1) }

ContentOutcomes ==
    {Timeout, TransportError, NoContent} \cup { Text(t) : t \in ContentTexts }

ContentCases ==
    { <<RawRequest(n, TRUE, "gpt-3.5-turbo", <<>>, ClientA), Timeout>> :
          n \in ContentNames }
    \cup
    { <<RawRequest(ItemPizza, FALSE, m, <<>>, ClientA), o>> :
          m \in {"gpt-4", "gpt-5"}, o \in ContentOutcomes }
    \cup
    { <<RawRequest(Rep("a", MaxItemNameLen), FALSE, "gpt-4", <<>>, ClientA), Timeout>>,
      <<RawRequest(ItemPizza, TRUE, "gpt-4", <<>>, NoHost), Timeout>> }

InitContent ==
    /\ InitCommon
    /\ rate_limit_store = [c \in {ClientA} |-> Rep(0, DefaultLimit - 1)]
    /\ admitted = rate_limit_store
    /\ openai_client \in {"none", "configured"}

NextContent == \E case \in ContentCases : Post(case[1], case[2])

SpecContent == InitContent /\ [][NextContent]_vars

-----------------------------------------------------------------------------
(* SpecConc: requests in flight at once.  The endpoint is a coroutine that *)
(* never awaits: once a task holds the event loop it keeps it to the end   *)
(* of the handler.  The handler is taken statement by statement.           *)

TaskIds == 1..NTasks

IdleTask ==
    [pc |-> "idle", req |-> NoLast, ip |-> <<>>, current_time |-> 0,
     filtered |-> <<>>, status |-> 0, model_used |-> "none"]

RequestsConc ==
    { RawRequest(ItemPizza, TRUE, "gpt-4", <<>>, ClientA),
      RawRequest(ItemScript, TRUE, "gpt-4", <<>>, ClientA) }

\* A scheduler that lets any task run at any statement
Preemptive(r) == TRUE

\* main.py:317: `async def` with no await in its body -- another task gets the
\* event loop only when none holds it
Scheduled(r) == running = NoTask \/ running = r

Finish(r, status, model_used) ==
    [tasks EXCEPT ![r].pc = "done", ![r].status = status,
                  ![r].model_used = model_used]

Received(r, req) ==
    IF req.ok THEN [tasks EXCEPT ![r].pc = "ready", ![r].req = req]
    ELSE Finish(r, 422, "none")

\* The framework reads and validates the body (main.py:50-88, 317)
Receive(r, raw) ==
    /\ tasks[r].pc = "idle"
    /\ Scheduled(r)
    /\ tasks' = Received(r, MenuItemRequest(raw))
    /\ UNCHANGED <<rate_limit_store, now, openai_client, admitted, last, limit,
                   window, running>>

\* main.py:337, 101-104
Begin(r) ==
    /\ tasks[r].pc = "ready"
    /\ Scheduled(r)
    /\ LET who == get_client_ip(tasks[r].req)
       IN  IF who.raised # "none"
           THEN /\ tasks' = Finish(r, 500, "none")
                /\ running' = NoTask
                /\ UNCHANGED rate_limit_store
           ELSE /\ tasks' = [tasks EXCEPT ![r].pc = "filter", ![r].ip = who.ip,
                                          ![r].current_time = now]
                /\ running' = r
                /\ rate_limit_store' = EnsureKey(rate_limit_store, who.ip)
    /\ UNCHANGED <<now, openai_client, admitted, last, limit, window>>

\* main.py:108-110: the list comprehension is evaluated
Filter(r) ==
    /\ tasks[r].pc = "filter"
    /\ Scheduled(r)
    /\ tasks' = [tasks EXCEPT
                    ![r].pc = "assign",
                    ![r].filtered = Prune(rate_limit_store[tasks[r].ip],
                                          tasks[r].current_time, DefaultWindow)]
    /\ running' = r
    /\ UNCHANGED <<rate_limit_store, now, openai_client, admitted, last, limit, window>>

\* main.py:107: the new list is stored
Assign(r) ==
    /\ tasks[r].pc = "assign"
    /\ Scheduled(r)
    /\ rate_limit_store' = [rate_limit_store EXCEPT ![tasks[r].ip] = tasks[r].filtered]
    /\ tasks' = [tasks EXCEPT ![r].pc = "check"]
    /\ running' = r
    /\ UNCHANGED <<now, openai_client, admitted, last, limit, window>>

\* main.py:113-114, 338-342
Check(r) ==
    /\ tasks[r].pc = "check"
    /\ Scheduled(r)
    /\ IF LimitExceeded(rate_limit_store[tasks[r].ip], DefaultLimit)
       THEN tasks' = Finish(r, 429, "none") /\ running' = NoTask
       ELSE tasks' = [tasks EXCEPT ![r].pc = "append"] /\ running' = r
    /\ UNCHANGED <<rate_limit_store, now, openai_client, admitted, last, limit, window>>

\* main.py:117-118
AppendTime(r) ==
    /\ tasks[r].pc = "append"
    /\ Scheduled(r)
    /\ rate_limit_store' = [rate_limit_store EXCEPT
                               ![tasks[r].ip] = Append(@, tasks[r].current_time)]
    /\ admitted' = RecordAdmitted(admitted, tasks[r].ip, tasks[r].current_time)
    /\ tasks' = [tasks EXCEPT ![r].pc = "generate"]
    /\ running' = r
    /\ UNCHANGED <<now, openai_client, last, limit, window>>

Generated(r, resp) == Finish(r, resp.status, resp.model_used)

\* main.py:344-392
Generate(r, outcome) ==
    /\ tasks[r].pc = "generate"
    /\ Scheduled(r)
    /\ tasks' = Generated(r, GenerateResponse(tasks[r].req, openai_client, outcome))
    /\ running' = NoTask
    /\ UNCHANGED <<rate_limit_store, now, openai_client, admitted, last, limit, window>>

InitConc ==
    /\ now = 0
    /\ last = NoLast
    /\ limit = DefaultLimit
    /\ window = DefaultWindow
    /\ tasks = [r \in TaskIds |-> IdleTask]
    /\ running = NoTask
    /\ openai_client = "configured"
    /\ \E k \in {0, DefaultLimit - 1} :
          rate_limit_store = IF k = 0 THEN <<>> ELSE [c \in {ClientA} |-> Rep(0, k)]
    /\ admitted = rate_limit_store

NextConc ==
    \/ Tick(Quantum, MaxTime)
    \/ \E r \in TaskIds :
          \/ \E raw \in RequestsConc : Receive(r, raw)
          \/ Begin(r)
          \/ Filter(r)
          \/ Assign(r)
          \/ Check(r)
          \/ AppendTime(r)
          \/ Generate(r, Timeout)

SpecConc == InitConc /\ [][NextConc]_vars

-----------------------------------------------------------------------------
(* Properties *)

\* The timestamps of times that a call at time t counts: those with t - x < win
Within(times, t, win) == SelectSeq(times, LAMBDA x : t - x < win)

\* A step of a request that got as far as the rate-limit check
CheckedRequest ==
    /\ now' = now
    /\ last'.op = "request"
    /\ last'.response.status \in {200, 429}

\* C1: a request is admitted, and its time appended to the client's record,
\* whenever fewer than DefaultLimit earlier admitted requests of its client have
\* a timestamp t with now - t < DefaultWindow; it is answered 429 whenever
\* DefaultLimit of them do.  So of 11 requests of one client within 60 seconds
\* the first 10 are served and the 11th is answered 429.
RateLimitDecides ==
    [][ CheckedRequest =>
          LET ip == last'.ip
              counted == Within(EntryOf(admitted, ip), now, DefaultWindow)
          IN  IF Len(counted) < DefaultLimit
              THEN /\ last'.response.status = 200
                   /\ rate_limit_store'[ip] = Append(counted, now)
                   /\ admitted'[ip] = Append(EntryOf(admitted, ip), now)
              ELSE /\ last'.response.status = 429
                   /\ admitted' = admitted
      ]_vars

\* Ten requests of one client were admitted and the next one, still within
\* DefaultWindow seconds of all of them, was answered 429
EleventhRejected ==
    /\ last.op = "request"
    /\ last.ip = ClientA
    /\ last.response.status = 429
    /\ Len(EntryOf(admitted, ClientA)) = DefaultLimit
    /\ \A i \in 1..DefaultLimit : last.at - admitted[ClientA][i] < DefaultWindow

\* C2: validate_ai_response returns, for every text, without raising, a
\* description of 1 to MaxDescriptionLen characters and an upsell of 1 to
\* MaxUpsellLen characters.
RepairIsTotal ==
    last.op = "repaired" =>
        /\ last.result.raised = "none"
        /\ Len(last.result.description) \in 1..MaxDescriptionLen
        /\ Len(last.result.upsell_suggestion) \in 1..MaxUpsellLen

\* The request of `l` got to the model call: its name is valid, its client is
\* known, it was not rate limited, it does not ask for simulation and the
\* client is configured
Attempted(l) ==
    /\ l.op = "request"
    /\ validate_item_name(l.raw.item_name).ok
    /\ l.ip # <<>>
    /\ l.response.status # 429
    /\ ~l.raw.simulate
    /\ openai_client = "configured"

\* C3: when the model call is attempted and fails (it raises, or its
\* completion has no content) the response is 200, tagged "fallback", and its
\* description and upsell are get_simulate_response's for the validated name.
ModelFailureFallsBack ==
    (Attempted(last) /\ last.outcome.kind # "text") =>
        /\ last.response.status = 200
        /\ last.response.model_used = "fallback"
        /\ last.response.description =
              get_simulate_response(validate_item_name(last.raw.item_name).value).description
        /\ last.response.upsell_suggestion =
              get_simulate_response(validate_item_name(last.raw.item_name).value).upsell_suggestion

\* The model call timed out and the response is the fallback
TimeoutFellBack ==
    /\ Attempted(last)
    /\ last.outcome.kind = "timeout"
    /\ last.response.status = 200
    /\ last.response.model_used = "fallback"
    /\ last.response.description = ItemPizza \o Categories[1].suffix

\* C4: a name the validator accepts has 1 to MaxItemNameLen characters, none
\* of the characters < > " ' and none of the denylisted tokens.
AcceptedNamesAreClean ==
    (last.op = "validated" /\ last.result.ok) =>
        /\ Len(last.result.value) \in 1..MaxItemNameLen
        /\ \A i \in 1..Len(last.result.value) : last.result.value[i] \notin ForbiddenChars
        /\ ~IsSuspicious(last.result.value)

\* C5: every 200 response carries a description of at most MaxDescriptionLen
\* characters and an upsell of at most MaxUpsellLen characters.
ResponseWithinCaps ==
    (last.op = "request" /\ last.response.status = 200) =>
        /\ Len(last.response.description) <= MaxDescriptionLen
        /\ Len(last.response.upsell_suggestion) <= MaxUpsellLen

\* C6: a request whose name fails validation is answered 422; it leaves the
\* rate-limit store as it was, so it takes nothing from the client's quota,
\* and the model is not called.
InvalidNameHasNoEffect ==
    [][ ( /\ now' = now
          /\ last'.op = "request"
          /\ ~validate_item_name(last'.raw.item_name).ok ) =>
          /\ last'.response.status = 422
          /\ ~last'.response.called
          /\ rate_limit_store' = rate_limit_store
          /\ admitted' = admitted
      ]_vars

\* The script name was answered 422 while its client, with requests admitted
\* before, keeps what is left of its quota
ScriptRejected ==
    /\ last.op = "request"
    /\ last.raw.item_name = ItemScript
    /\ last.response.status = 422
    /\ Len(EntryOf(rate_limit_store, ClientA)) \in 1..(DefaultLimit - 1)
    /\ rate_limit_store = admitted

\* C7: a 200 response is tagged "simulate" exactly when simulate is set or the
\* client is unconfigured; when the model call returns a text the response is
\* the repair of that text, tagged with the normalized requested model; it is
\* tagged "fallback" only when the model call failed.
ModelUsedIdentifiesPath ==
    (last.op = "request" /\ last.response.status = 200) =>
        /\ last.response.model_used = "simulate"
              <=> (last.raw.simulate \/ openai_client = "none")
        /\ (Attempted(last) /\ last.outcome.kind = "text") =>
              /\ last.response.model_used = validate_gpt_model(last.raw.gpt_model)
              /\ last.response.repaired.raised = "none"
              /\ last.response.description = last.response.repaired.description
              /\ last.response.upsell_suggestion =
                    last.response.repaired.upsell_suggestion
        /\ last.response.model_used = "fallback"
              => (Attempted(last) /\ last.outcome.kind # "text")

\* A step of a direct call of check_rate_limit
DirectCall == now' = now /\ last'.op = "check"

\* C8: at every call the timestamps counted against the client are exactly its
\* earlier admitted timestamps t with now - t < window, each one ageing out on
\* its own; and a call made window seconds or more after the earliest
\* recorded timestamp is admitted.
SlidingWindowRecovers ==
    [][ DirectCall =>
          LET ip == last'.ip
              old == EntryOf(rate_limit_store, ip)
              counted == Within(EntryOf(admitted, ip), now, window)
          IN  /\ last'.ok <=> Len(counted) < limit
              /\ rate_limit_store'[ip] =
                    IF last'.ok THEN Append(counted, now) ELSE counted
              /\ (old # <<>> /\ now - old[1] >= window) => last'.ok
      ]_vars

\* A client that had used its whole limit is admitted again exactly window
\* seconds after its earliest timestamp
RecoveredAtBoundary ==
    /\ last.op = "check"
    /\ last.ok
    /\ last.at = now
    /\ Len(EntryOf(admitted, last.ip)) = limit + 1
    /\ now - admitted[last.ip][1] = window
    /\ now - admitted[last.ip][limit] < window

\* The first time from t on at which a call of the client would be admitted
NextAdmission(store, ip, t, lim, win) ==
    LET times == EntryOf(store, ip)
        at == {t} \cup {times[i] + win : i \in DOMAIN times}
    IN  MinOf({u \in at : u >= t /\ Len(Within(times, u, win)) < lim})

\* C9: after a call that returns False the client's record is exactly its
\* unexpired earlier admitted timestamps, every other client's record is as it
\* was, and the time of the client's next admission is what it was.
RejectionRecordsNothing ==
    [][ (DirectCall /\ ~last'.ok) =>
          LET ip == last'.ip
          IN  /\ rate_limit_store'[ip] = Within(EntryOf(admitted, ip), now, window)
              /\ DOMAIN rate_limit_store' = DOMAIN rate_limit_store \cup {ip}
              /\ \A c \in DOMAIN rate_limit_store \ {ip} :
                    rate_limit_store'[c] = rate_limit_store[c]
              /\ admitted' = admitted
              /\ NextAdmission(rate_limit_store', ip, now, limit, window)
                    = NextAdmission(rate_limit_store, ip, now, limit, window)
      ]_vars

\* A client at its limit was rejected while another client has a record
RejectedBesideOther ==
    /\ last.op = "check"
    /\ ~last.ok
    /\ last.at = now
    /\ Len(rate_limit_store[last.ip]) = limit
    /\ \E c \in DOMAIN rate_limit_store : c # last.ip /\ rate_limit_store[c] # <<>>

\* C10: with requests of one client in flight together, no admitted timestamp
\* is lost from the client's record while it is unexpired, and no window of
\* DefaultWindow seconds holds more than DefaultLimit admitted timestamps.
AdmissionsSerialized ==
    \A c \in DOMAIN admitted :
        /\ Within(EntryOf(rate_limit_store, c), now, DefaultWindow)
              = Within(admitted[c], now, DefaultWindow)
        /\ \A i \in DOMAIN admitted[c] :
              Cardinality({j \in DOMAIN admitted[c] :
                              /\ admitted[c][i] - DefaultWindow < admitted[c][j]
                              /\ admitted[c][j] <= admitted[c][i]}) <= DefaultLimit

\* One request is about to append its timestamp, the record one short of the
\* limit, while another request of the same client waits for the event loop
InFlightTogether ==
    \E r, q \in TaskIds :
        /\ r # q
        /\ tasks[r].pc = "append"
        /\ tasks[r].ip = ClientA
        /\ tasks[q].pc = "ready"
        /\ tasks[q].req.host = ClientA
        /\ Len(rate_limit_store[ClientA]) = DefaultLimit - 1

=============================================================================
